---- MODULE Spec2Model ----
(***************************************************************************)
(* Model of homework.py: a bot that polls practicum.yandex.ru for the      *)
(* status of homeworks and forwards status texts to a Telegram chat.       *)
(*                                                                         *)
(* Conventions.  A Python value that may be missing (an unbound global, an *)
(* absent dictionary key) is a sequence of length at most one: <<>> is     *)
(* "missing", <<v>> is "present with value v".  A call that may raise is   *)
(* an operator returning [raised |-> class name or "none", value |-> ...]. *)
(* The Russian texts of the source are transliterated, because the module  *)
(* is ASCII; every text keeps its structure and the texts stay distinct.   *)
(***************************************************************************)
EXTENDS Integers, Sequences, FiniteSets, TLC

----------------------------------------------------------------------------
(* Bounds of the model *)

\* timestamps (the clock at start-up, current_date of a reply) are 0..MaxDate
MaxDate == 1
\* a homeworks list has at most MaxHw elements
MaxHw == 2
\* the count of failure notices of a streak saturates at MaxNotices
MaxNotices == 2

----------------------------------------------------------------------------
(* Program constants *)

RETRY_TIME == 600
BASE_SLEEP == 30
SLEEP_LIMIT == 51200
HTTP_OK == 200

HOMEWORK_STATUSES ==
    [approved  |-> "Rabota proverena: revjueru vse ponravilos. Ura!",
     reviewing |-> "Rabota vzjata na proverku revjuerom.",
     rejected  |-> "Rabota proverena: u revjuera est zamechanija."]

SECRETS == {"P_TOKEN", "T_TOKEN", "T_CHAT_ID"}

----------------------------------------------------------------------------
(* Optional values and results of calls *)

Missing == <<>>
Present(v) == <<v>>
IsPresent(o) == Len(o) = 1
Get(o) == o[1]

Return(v) == [raised |-> "none", value |-> v]
Raise(cls, dflt) == [raised |-> cls, value |-> dflt]

----------------------------------------------------------------------------
(* The values the remote service and Telegram can produce *)

Dates == 0..MaxDate
OptDates == {Missing} \cup {Present(d) : d \in Dates}

\* one element of the homeworks list: a dictionary whose keys
\* homework_name and status may be absent; "bogus" is an undocumented status
StatusValues == {"approved", "reviewing", "rejected", "bogus"}
HomeworkSamples ==
    {[homework_name |-> Present("task1"), status |-> Present(s)] :
        s \in StatusValues}
    \cup {[homework_name |-> Present("task1"), status |-> Missing],
          [homework_name |-> Missing, status |-> Present("approved")]}

HomeworkLists == UNION {[1..n -> HomeworkSamples] : n \in 0..MaxHw}

ApprovedTask == [homework_name |-> Present("task1"), status |-> Present("approved")]

\* response['homeworks']: absent key, JSON null, a non-list value, or a list
HwAbsent == [kind |-> "absent", items |-> <<>>]
HwNull == [kind |-> "null", items |-> <<>>]
HwNotList == [kind |-> "notlist", items |-> <<>>]
HwList(l) == [kind |-> "list", items |-> l]

\* response['error']: absent, a dictionary with / without the key 'error',
\* or a string that contains the word error
ErrorValues == {"absent", "dict_with_error", "dict_plain", "str_with_error"}
\* 'code' in response, with or without the accompanying 'message' key
CodeValues == {"absent", "with_message", "without_message"}

Mapping(e, c, h, d) ==
    [kind |-> "mapping", error |-> e, code |-> c, homeworks |-> h,
     current_date |-> d]
NonMapping(k) ==
    [kind |-> k, error |-> "absent", code |-> "absent", homeworks |-> HwAbsent,
     current_date |-> Missing]

\* JSON documents the endpoint may answer with
Payloads ==
    {NonMapping(k) : k \in {"list", "null", "string"}}
    \cup {Mapping(e, c, h, d) :
            e \in ErrorValues, c \in CodeValues,
            h \in {HwAbsent, HwNull, HwNotList, HwList(<<>>),
                   HwList(<<ApprovedTask>>)},
            d \in OptDates}
    \cup {Mapping("absent", "absent", HwList(l), d) :
            l \in HomeworkLists, d \in OptDates}

\* what requests.get delivers: an exception, or a reply with a status code
\* and a body that is a JSON document or is not JSON (json |-> Missing)
Replies ==
    {[fault |-> "RequestException", status_code |-> 0, json |-> Missing]}
    \cup {[fault |-> "none", status_code |-> HTTP_OK, json |-> Missing],
          [fault |-> "none", status_code |-> 503, json |-> Missing],
          [fault |-> "none", status_code |-> 503,
           json |-> Present(Mapping("absent", "with_message", HwAbsent, Missing))]}
    \cup {[fault |-> "none", status_code |-> HTTP_OK, json |-> Present(p)] :
            p \in Payloads}

\* outcome of bot.send_message
Deliveries == {"ok", "Unauthorized", "BadRequest", "TelegramError"}

----------------------------------------------------------------------------
(* The functions of homework.py *)

\* mutant of check_tokens: the three tests are joined by and instead of or,
\* so only an environment with no secret at all is refused
check_tokens_any(environ) == SECRETS \cap environ # {}

\* check_tokens(): all three environment variables are set
check_tokens(environ) == SECRETS \subseteq environ

\* mutant of next_sleep: the limit is tested before the doubling
next_sleep_late_reset(t) == IF t >= SLEEP_LIMIT THEN BASE_SLEEP ELSE 2 * t

\* mutant of next_sleep: the interval is halved instead of doubled
next_sleep_halved(t) == IF 2 * t >= SLEEP_LIMIT THEN BASE_SLEEP ELSE t \div 2

\* the two statements of timeout_and_logging that compute the next interval:
\* doubled, and back to 30 once the doubled value reaches 51200
next_sleep(t) == IF 2 * t >= SLEEP_LIMIT THEN BASE_SLEEP ELSE 2 * t

\* timeout_and_logging(message, run_error) on the global g = time_sleep_error:
\* the message is logged first; reading the unbound global raises NameError;
\* otherwise it sleeps g, and leaves the next interval in the global
timeout_and_logging(g, level) ==
    IF ~IsPresent(g)
    THEN [raised |-> "NameError", slept |-> <<>>, global |-> g,
          logs |-> {level}]
    ELSE [raised |-> "none", slept |-> <<Get(g)>>,
          global |-> Present(next_sleep(Get(g))),
          logs |-> {level} \cup
                   (IF 2 * Get(g) >= SLEEP_LIMIT THEN {"critical"} ELSE {})]

\* mutant of parse_status: the text is the verdict alone, without the
\* homework's name
parse_status_name_dropped(homework) ==
    IF ~IsPresent(homework.homework_name) THEN Raise("KeyError", "")
    ELSE IF ~IsPresent(homework.status) THEN Raise("KeyError", "")
    ELSE IF Get(homework.status) \notin DOMAIN HOMEWORK_STATUSES
         THEN Raise("PracticumException", "")
    ELSE Return("Izmenilsja status proverki raboty. "
                \o HOMEWORK_STATUSES[Get(homework.status)])

\* mutant of parse_status: an undocumented status or a missing key is
\* reported with a default verdict instead of raising
parse_status_defaulting(homework) ==
    Return("Izmenilsja status proverki raboty \""
           \o (IF IsPresent(homework.homework_name)
               THEN Get(homework.homework_name) ELSE "")
           \o "\". "
           \o (IF IsPresent(homework.status)
                  /\ Get(homework.status) \in DOMAIN HOMEWORK_STATUSES
               THEN HOMEWORK_STATUSES[Get(homework.status)]
               ELSE "Status neizvesten."))

\* parse_status(homework): KeyError on a missing key, PracticumException on
\* an undocumented status, else the text with the homework's name and verdict
parse_status(homework) ==
    IF ~IsPresent(homework.homework_name) THEN Raise("KeyError", "")
    ELSE IF ~IsPresent(homework.status) THEN Raise("KeyError", "")
    ELSE IF Get(homework.status) \notin DOMAIN HOMEWORK_STATUSES
         THEN Raise("PracticumException", "")
    ELSE Return("Izmenilsja status proverki raboty \""
                \o Get(homework.homework_name) \o "\". "
                \o HOMEWORK_STATUSES[Get(homework.status)])

\* get_api_answer(current_timestamp), given what requests.get delivers
get_api_answer(reply) ==
    IF reply.fault # "none" THEN Raise("PracticumException", Missing)
    ELSE IF reply.status_code # HTTP_OK
         THEN IF IsPresent(reply.json)
              THEN Raise("PracticumException", Missing)
              ELSE Raise("JSONDecodeError", Missing)
    ELSE IF ~IsPresent(reply.json) THEN Raise("PracticumException", Missing)
    ELSE Return(reply.json)

\* check_response(response)
check_response(response) ==
    IF response.kind # "mapping" THEN Raise("TypeError", <<>>)
    ELSE IF response.error = "dict_with_error"
         THEN Raise("PracticumException", <<>>)
    ELSE IF response.error = "str_with_error" THEN Raise("TypeError", <<>>)
    ELSE IF response.code = "with_message"
         THEN Raise("PracticumException", <<>>)
    ELSE IF response.code = "without_message" THEN Raise("KeyError", <<>>)
    ELSE IF response.homeworks.kind = "absent" THEN Raise("KeyError", <<>>)
    ELSE IF response.homeworks.kind = "null"
         THEN Raise("PracticumException", <<>>)
    ELSE IF response.homeworks.kind # "list"
         THEN Raise("PracticumException", <<>>)
    ELSE Return(response.homeworks.items)

\* mutant of first_homework: the last element is taken
first_homework_last(homeworks) == homeworks[Len(homeworks)]

\* homeworks[0] of line 182: the first element of a non-empty list
first_homework(homeworks) == homeworks[1]

\* mutant of has_updates: the length is compared with 1 instead of 0
has_updates_above_one(homeworks) == Len(homeworks) > 1

\* the condition of main's if: homeworks is a non-empty list
has_updates(homeworks) == Len(homeworks) > 0

\* mutant of failure_notice: the send_message call of line 189 is active
failure_notice_active(cls) ==
    IF cls = "PracticumException"
    THEN <<"Oshibka: practicum.yandex.ru">> ELSE <<>>

\* the messages the except clause for an exception of class cls sends through
\* the bot: none, the send_message call of the PracticumException clause
\* (line 189) is commented out
failure_notice(cls) == <<>>

\* mutant of reset_sleep: the else clause leaves the global as it is
reset_sleep_forgotten(g) == g

\* the value main assigns to the global in the else clause of the try
reset_sleep(g) == Present(BASE_SLEEP)

\* mutant of next_timestamp: the cursor is only ever moved forward
next_timestamp_forward(cur, d) == IF d > cur THEN d ELSE cur

\* the cursor after line 185, given the reply's current_date d (present)
next_timestamp(cur, d) == d

\* what a call did: the exception it raised, the global time_sleep_error after
\* it, the texts handed to bot.send_message, the outcome of the delivery, the
\* intervals given to time.sleep and the log levels (error and above) written
Effect(raised, g, sent, delivery, slept, logs, reset) ==
    [raised |-> raised, global |-> g, sent |-> sent, delivery |-> delivery,
     sleeps |-> slept, logs |-> logs, reset |-> reset]
NoEffect(raised, g) == Effect(raised, g, <<>>, "none", <<>>, {}, FALSE)

\* send_message(bot, message) when bot.send_message ends as tg: the three
\* except clauses call timeout_and_logging and swallow the Telegram error; a
\* NameError raised by timeout_and_logging leaves send_message
send_message(message, g, tg) ==
    IF tg = "ok" THEN Effect("none", g, <<message>>, tg, <<>>, {}, FALSE)
    ELSE LET t == timeout_and_logging(g, "error")
         IN Effect(t.raised, t.global, <<message>>, tg, t.slept, t.logs,
                   "critical" \in t.logs)

\* mutant of try_suite: the cursor is assigned right after check_response,
\* before the homework is parsed and sent
try_suite_cursor_first(cur, g, r, tg) ==
    LET api == get_api_answer(r)
        stop(cls, c) == [eff |-> NoEffect(cls, g), cursor |-> c]
    IN IF api.raised # "none" THEN stop(api.raised, cur)
       ELSE
       LET response_api == Get(api.value)
           checked == check_response(response_api)
       IN IF checked.raised # "none" THEN stop(checked.raised, cur)
          ELSE IF ~IsPresent(response_api.current_date)
               THEN stop("KeyError", cur)
          ELSE
          LET homeworks == checked.value
              moved == next_timestamp(cur, Get(response_api.current_date))
              text == IF has_updates(homeworks)
                      THEN parse_status(first_homework(homeworks))
                      ELSE Return("")
              told == IF has_updates(homeworks) /\ text.raised = "none"
                      THEN send_message(text.value, g, tg)
                      ELSE NoEffect(text.raised, g)
          IN IF told.raised # "none" THEN [eff |-> told, cursor |-> moved]
             ELSE [eff |-> [told EXCEPT !.sleeps = Append(@, RETRY_TIME)],
                   cursor |-> moved]

\* the suite of main's try (lines 176-186) from cursor cur and global g, when
\* requests.get delivers r and bot.send_message (if called) ends as tg;
\* cursor is current_timestamp after the suite
try_suite(cur, g, r, tg) ==
    LET api == get_api_answer(r)
        stop(cls) == [eff |-> NoEffect(cls, g), cursor |-> cur]
    IN IF api.raised # "none" THEN stop(api.raised)
       ELSE
       LET response_api == Get(api.value)
           checked == check_response(response_api)
       IN IF checked.raised # "none" THEN stop(checked.raised)
          ELSE
          LET homeworks == checked.value
              text == IF has_updates(homeworks)
                      THEN parse_status(first_homework(homeworks))
                      ELSE Return("")
              told == IF has_updates(homeworks) /\ text.raised = "none"
                      THEN send_message(text.value, g, tg)
                      ELSE NoEffect(text.raised, g)
          IN IF told.raised # "none" THEN [eff |-> told, cursor |-> cur]
             ELSE IF ~IsPresent(response_api.current_date)
                  THEN [eff |-> [told EXCEPT !.raised = "KeyError"],
                        cursor |-> cur]
             ELSE [eff |-> [told EXCEPT !.sleeps = Append(@, RETRY_TIME)],
                   cursor |-> next_timestamp(cur,
                                  Get(response_api.current_date))]

\* the status of the first homework of a reply, if the reply has one
first_status(r) ==
    IF IsPresent(r.json) /\ Get(r.json).homeworks.kind = "list"
       /\ Len(Get(r.json).homeworks.items) > 0
    THEN Get(r.json).homeworks.items[1].status
    ELSE Missing

----------------------------------------------------------------------------
(* State *)

VARIABLES
    pc,                \* position of the process: start, fetch (entering
                       \* the try), else, except, loop (the iteration is
                       \* over), returned, crashed
    environ,           \* the secrets present in the environment
    exit_code,         \* the exit code of the process, once it has ended
    current_timestamp, \* main's cursor
    time_sleep_error,  \* the global backoff interval, unbound at start
    exc,               \* the exception main's try has raised, or "none"
    \* observations of the current iteration
    reply,             \* what requests.get delivered
    from_date,         \* the from_date parameter of the request
    sent,              \* texts handed to bot.send_message
    delivery,          \* outcome of bot.send_message
    sleeps,            \* intervals given to time.sleep by the try suite
    logged,            \* log levels error and critical written
    \* observations across iterations
    prev_cycle,        \* "none", "ok" or "failed": how the last iteration ended
    prev_status,       \* first homework's status of the last iteration, if ok
    prev_backoff,      \* in the current failing streak: the interval main's
    last_backoff,      \*   handler slept in the failure before last / the last
    wrapped,           \* time_sleep_error went back to 30 between those two
    wrap_pending,      \* time_sleep_error went back to 30 since last_backoff
    error_notices,     \* failure notices sent in the current failing streak
    reset_from         \* the interval the else clause has just overwritten

vars == <<pc, environ, exit_code, current_timestamp, time_sleep_error, exc,
          reply, from_date, sent, delivery, sleeps, logged, prev_cycle,
          prev_status, prev_backoff, last_backoff, wrapped, wrap_pending,
          error_notices, reset_from>>

iteration == <<reply, from_date, sent, delivery, sleeps, logged>>
streak == <<prev_backoff, last_backoff, wrapped, wrap_pending, error_notices>>
history == <<prev_cycle, prev_status, reset_from>>

Init ==
    /\ pc = "start"
    /\ environ \in SUBSET SECRETS
    /\ exit_code = Missing
    /\ current_timestamp = Missing
    /\ time_sleep_error = Missing
    /\ exc = "none"
    /\ reply = Missing
    /\ from_date = Missing
    /\ sent = <<>>
    /\ delivery = "none"
    /\ sleeps = <<>>
    /\ logged = {}
    /\ prev_cycle = "none"
    /\ prev_status = Missing
    /\ prev_backoff = 0
    /\ last_backoff = 0
    /\ wrapped = FALSE
    /\ wrap_pending = FALSE
    /\ error_notices = 0
    /\ reset_from = Missing

----------------------------------------------------------------------------
(* Actions *)

\* main, lines 168-172: the token check, the bot and the first cursor
Start ==
    /\ pc = "start"
    /\ IF check_tokens(environ)
       THEN /\ pc' = "fetch"
            /\ \E now \in Dates : current_timestamp' = Present(now)
            /\ UNCHANGED <<exit_code, logged>>
       ELSE /\ pc' = "returned"
            /\ logged' = {"critical"}
            /\ exit_code' = Present(0)
            /\ UNCHANGED current_timestamp
    /\ UNCHANGED <<environ, time_sleep_error, exc, reply, from_date, sent,
                   delivery, sleeps, history, streak>>

\* one pass through the suite of main's try, lines 175-186
TryBody ==
    /\ pc = "fetch"
    /\ \E r \in Replies, tg \in Deliveries :
         LET res == try_suite(Get(current_timestamp), time_sleep_error, r, tg)
         IN \* tg is only an input when bot.send_message is called
            /\ (res.eff.delivery = "none") => (tg = "ok")
            /\ reply' = Present(r)
            /\ from_date' = current_timestamp
            /\ current_timestamp' = Present(res.cursor)
            /\ time_sleep_error' = res.eff.global
            /\ sent' = res.eff.sent
            /\ delivery' = res.eff.delivery
            /\ sleeps' = res.eff.sleeps
            /\ logged' = res.eff.logs
            /\ wrap_pending' = (wrap_pending \/ res.eff.reset)
            /\ exc' = res.eff.raised
            /\ pc' = IF res.eff.raised = "none" THEN "else" ELSE "except"
    /\ UNCHANGED <<environ, exit_code, prev_cycle, prev_status, prev_backoff,
                   last_backoff, wrapped, error_notices, reset_from>>

\* an except clause of main: timeout_and_logging at the given log level; a
\* NameError raised inside the clause leaves main and ends the process
Handler(level) ==
    LET t == timeout_and_logging(time_sleep_error, level)
        notices == failure_notice(exc)
    IN /\ sent' = sent \o notices
       /\ logged' = logged \cup t.logs
       /\ sleeps' = sleeps \o t.slept
       /\ error_notices' =
            IF error_notices + Len(notices) > MaxNotices
            THEN MaxNotices ELSE error_notices + Len(notices)
       /\ IF t.raised # "none"
          THEN /\ pc' = "crashed"
               /\ exc' = t.raised
               /\ exit_code' = Present(1)
               /\ UNCHANGED <<time_sleep_error, prev_cycle, prev_status,
                              prev_backoff, last_backoff, wrapped,
                              wrap_pending>>
          ELSE /\ pc' = "loop"
               /\ exc' = "none"
               /\ time_sleep_error' = t.global
               /\ prev_cycle' = "failed"
               /\ prev_status' = Missing
               /\ prev_backoff' = last_backoff
               /\ last_backoff' = Get(t.slept)
               /\ wrapped' = wrap_pending
               /\ wrap_pending' = (2 * Get(time_sleep_error) >= SLEEP_LIMIT)
               /\ UNCHANGED exit_code
       /\ UNCHANGED <<environ, current_timestamp, reply, from_date, delivery,
                      reset_from>>

\* except PracticumException, lines 188-190
ExceptPracticum ==
    /\ pc = "except"
    /\ exc = "PracticumException"
    /\ Handler("error")

\* except Exception, lines 191-195
ExceptException ==
    /\ pc = "except"
    /\ exc # "PracticumException"
    /\ Handler("critical")

\* the else clause of the try, lines 196-198
ElseClause ==
    /\ pc = "else"
    /\ pc' = "loop"
    /\ time_sleep_error' = reset_sleep(time_sleep_error)
    /\ reset_from' = time_sleep_error
    /\ prev_cycle' = "ok"
    /\ prev_status' = first_status(Get(reply))
    /\ prev_backoff' = 0
    /\ last_backoff' = 0
    /\ wrapped' = FALSE
    /\ wrap_pending' = FALSE
    /\ error_notices' = 0
    /\ UNCHANGED <<environ, exit_code, current_timestamp, exc, iteration>>

\* while True, line 174: the next iteration begins; what was observed of the
\* finished one is forgotten
Iterate ==
    /\ pc = "loop"
    /\ pc' = "fetch"
    /\ reply' = Missing
    /\ from_date' = Missing
    /\ sent' = <<>>
    /\ delivery' = "none"
    /\ sleeps' = <<>>
    /\ logged' = {}
    /\ reset_from' = Missing
    /\ UNCHANGED <<environ, exit_code, current_timestamp, time_sleep_error,
                   exc, prev_cycle, prev_status, streak>>

Next ==
    \/ Start
    \/ Iterate
    \/ TryBody
    \/ ExceptPracticum
    \/ ExceptException
    \/ ElseClause

Spec == Init /\ [][Next]_vars

----------------------------------------------------------------------------
(* Properties *)

\* the current iteration has received a JSON document from get_api_answer
Fetched == IsPresent(reply) /\ get_api_answer(Get(reply)).raised = "none"
\* that document, and its homeworks list
Payload == Get(Get(reply).json)
Items == Payload.homeworks.items
HasList == Fetched /\ Payload.kind = "mapping" /\ Payload.homeworks.kind = "list"

\* the iteration is over (or in its else clause) and has not raised
CycleSucceeded == pc = "else" \/ (pc = "loop" /\ prev_cycle = "ok")
\* the iteration has raised into an except clause of main
CycleFailed ==
    pc \in {"except", "crashed"} \/ (pc = "loop" /\ prev_cycle = "failed")

\* C1: once the token check has passed, no failed cycle ends the polling loop:
\* the process never stops on an exception.
FailedCycleIsRetried == pc # "crashed"

BackoffResetAfterSuccess ==
    /\ (pc \in {"loop", "fetch"} /\ prev_cycle = "ok")
          => time_sleep_error = Present(30)
    /\ (pc = "loop" /\ prev_cycle = "failed" /\ prev_backoff = 0)
          => sleeps[1] = 30

BackoffResetAfterStreak ==
    /\ pc = "loop"
    /\ prev_cycle = "ok"
    /\ reset_from = Present(30720)
    /\ time_sleep_error = Present(30)

\* C5: a failed cycle leaves the cursor as it was: the cursor after the cycle
\* is the from_date of the failed fetch.
CursorKeptOnFailure == CycleFailed => current_timestamp = from_date

CursorKeptDespiteNewDate ==
    /\ pc = "loop"
    /\ prev_cycle = "failed"
    /\ Fetched
    /\ IsPresent(Payload.current_date)
    /\ Payload.current_date # from_date
    /\ current_timestamp = from_date

\* C6 as stated: after a successful cycle the cursor is greater than or equal
\* to the cursor before the cycle, whatever current_date the remote returns.
CursorNeverDecreases ==
    CycleSucceeded => Get(current_timestamp) >= Get(from_date)

\* C6 amended: after a successful cycle the cursor equals the current_date of
\* the reply, whether that is greater or smaller than the cursor before.
CursorFollowsCurrentDate ==
    CycleSucceeded => current_timestamp = Payload.current_date

CursorMovedBack ==
    /\ CycleSucceeded
    /\ Get(current_timestamp) < Get(from_date)

\* C7: a reply with a valid homeworks list and no current_date is tolerated:
\* the cycle does not reach the failure handler and nothing is logged as an
\* error.
MissingDateTolerated ==
    (/\ HasList
     /\ check_response(Payload).raised = "none"
     /\ ~IsPresent(Payload.current_date)
     /\ (Len(Items) > 0 =>
            parse_status(Items[1]).raised = "none" /\ delivery = "ok"))
        => CycleSucceeded /\ logged = {}

\* C8: a cycle whose payload is a mapping with an empty homeworks list never
\* calls send_message.
EmptyListNeverSends ==
    (HasList /\ Items = <<>>) => sent = <<>>

EmptyListWithErrorCode ==
    /\ pc = "loop"
    /\ prev_cycle = "failed"
    /\ HasList
    /\ Items = <<>>
    /\ Payload.code = "with_message"
    /\ sent = <<>>

\* the first homework of the payload lacks a key or has an undocumented status
BadFirstHomework ==
    /\ HasList
    /\ Len(Items) > 0
    /\ \/ ~IsPresent(Items[1].homework_name)
       \/ ~IsPresent(Items[1].status)
       \/ Get(Items[1].status) \notin {"approved", "reviewing", "rejected"}

\* C9: a first homework that fails extraction yields no notification and
\* sends the cycle to the failure handler.
BadHomeworkNeverNotified ==
    BadFirstHomework => sent = <<>> /\ CycleFailed

UndocumentedStatusHandled ==
    /\ pc = "loop"
    /\ prev_cycle = "failed"
    /\ BadFirstHomework
    /\ Items[1].status = Present("bogus")
    /\ check_response(Payload).raised = "none"
    /\ sent = <<>>

\* C10: at most one failure notice is sent through the bot per failing streak.
AtMostOneFailureNotice == error_notices <= 1

StreakOfTwoFailures ==
    /\ pc = "loop"
    /\ prev_backoff # 0
    /\ last_backoff # 0
    /\ error_notices <= 1

\* C11 as stated: a cycle whose first homework has an undocumented status and
\* which is the first failure of a streak sends exactly one failure notice
\* through the bot and sleeps the backoff before the next fetch.
UndocumentedStatusNotified ==
    (/\ pc = "loop"
     /\ prev_cycle = "failed"
     /\ prev_backoff = 0
     /\ BadFirstHomework
     /\ check_response(Payload).raised = "none"
     /\ IsPresent(Items[1].homework_name)
     /\ Items[1].status = Present("bogus"))
        => /\ error_notices = 1
           /\ Len(sent) = 1
           /\ sleeps # <<>>

\* some required secret is not in the environment
SecretMissing == SECRETS \ environ # {}

\* C12: with a required secret missing the polling loop is never entered:
\* nothing is fetched, nothing is sent, and main logs at critical level.
NoPollingWithoutSecrets ==
    SecretMissing
        => /\ pc \in {"start", "returned"}
           /\ reply = Missing
           /\ sent = <<>>
           /\ (pc = "returned" => "critical" \in logged)

OneSecretMissingRefused ==
    /\ pc = "returned"
    /\ Cardinality(SECRETS \ environ) = 1
    /\ reply = Missing
    /\ "critical" \in logged

\* C13: with a required secret missing the process exits with a non-zero
\* exit code.
MissingSecretExitsNonZero ==
    (pc = "returned" /\ SecretMissing)
        => IsPresent(exit_code) /\ Get(exit_code) # 0

\* C14: a failed delivery never ends the loop and is not retried in the same
\* cycle: send_message is called at most once per cycle and the process does
\* not stop after a failed send.
FailedSendKeepsPolling ==
    (delivery \notin {"none", "ok"}) => Len(sent) <= 1 /\ pc # "crashed"

\* the fetched document is not a mapping, or its homeworks value is absent,
\* null or not a list
MalformedPayload ==
    \/ Payload.kind # "mapping"
    \/ Payload.homeworks.kind \in {"absent", "null", "notlist"}

\* C15: check_response raises PracticumException for every malformed document
\* and returns the empty list of a mapping whose homeworks value is empty.
CheckResponseRejectsMalformed ==
    Fetched
        => /\ MalformedPayload
                => check_response(Payload).raised = "PracticumException"
           /\ (Payload = Mapping("absent", "absent", HwList(<<>>),
                                 Payload.current_date))
                => check_response(Payload) = Return(<<>>)

\* the verdict texts of the three documented statuses
ExpectedVerdict ==
    [approved  |-> "Rabota proverena: revjueru vse ponravilos. Ura!",
     reviewing |-> "Rabota vzjata na proverku revjuerom.",
     rejected  |-> "Rabota proverena: u revjuera est zamechanija."]

\* C16: for every homework with a name n and a documented status s,
\* parse_status returns, without raising, the text with n and the verdict of
\* s; the three verdicts are distinct.
ParseStatusOnDocumented ==
    /\ HasList =>
         \A i \in DOMAIN Items :
            (/\ IsPresent(Items[i].homework_name)
             /\ IsPresent(Items[i].status)
             /\ Get(Items[i].status) \in {"approved", "reviewing", "rejected"})
                => parse_status(Items[i]) =
                     Return("Izmenilsja status proverki raboty \""
                            \o Get(Items[i].homework_name) \o "\". "
                            \o ExpectedVerdict[Get(Items[i].status)])
    /\ Cardinality({HOMEWORK_STATUSES[s] : s \in DOMAIN HOMEWORK_STATUSES}) = 3

RejectedTextSent ==
    /\ pc = "else"
    /\ HasList
    /\ Len(Items) > 0
    /\ Items[1] = [homework_name |-> Present("task1"),
                   status |-> Present("rejected")]
    /\ sent = <<"Izmenilsja status proverki raboty \"task1\". Rabota proverena: u revjuera est zamechanija.">>

\* the first homework of the payload has a name and a documented status
GoodFirstHomework ==
    /\ HasList
    /\ check_response(Payload).raised = "none"
    /\ Len(Items) > 0
    /\ IsPresent(Items[1].homework_name)
    /\ IsPresent(Items[1].status)
    /\ Get(Items[1].status) \in {"approved", "reviewing", "rejected"}

\* C17: the first element of homeworks alone decides the notification: the
\* text sent is parse_status of the first element, and the elements after it
\* change neither the text nor whether the cycle succeeds.
FirstHomeworkDecides ==
    /\ GoodFirstHomework => sent = <<parse_status(Items[1]).value>>
    /\ (GoodFirstHomework /\ IsPresent(Payload.current_date)
        /\ delivery = "ok") => CycleSucceeded
    /\ BadFirstHomework => sent = <<>>

BogusTailIgnored ==
    /\ pc = "else"
    /\ GoodFirstHomework
    /\ Len(Items) = 2
    /\ Items[2].status = Present("bogus")
    /\ sent = <<parse_status(Items[1]).value>>

\* C18: whenever the failure handler runs, time_sleep_error has been assigned:
\* no except clause is entered with the global unbound, and no NameError is
\* ever raised.
BackoffAssignedBeforeRead ==
    /\ pc = "except" => IsPresent(time_sleep_error)
    /\ exc # "NameError"

\* the intervals 30 * 2^k, 0 <= k <= 10
BackoffValues == {30 * 2^k : k \in 0..10}

\* C19: once assigned, time_sleep_error is one of 30 * 2^k, 0 <= k <= 10, and
\* so is every interval the failure handler sleeps.
BackoffInRange ==
    /\ IsPresent(time_sleep_error) => Get(time_sleep_error) \in BackoffValues
    /\ \A i \in DOMAIN sleeps : sleeps[i] \in BackoffValues \cup {RETRY_TIME}
    /\ last_backoff \in BackoffValues \cup {0}
    /\ prev_backoff \in BackoffValues \cup {0}

BackoffAtMaximum ==
    /\ time_sleep_error = Present(30720)
    /\ last_backoff = 15360

\* C20: a cycle whose send fails with a Telegram error completes as a
\* successful cycle: one backoff sleep, the cursor moved to current_date, the
\* sleep of RETRY_TIME, and the backoff back at 30.
FailedSendCompletesCycle ==
    (/\ delivery \notin {"none", "ok"}
     /\ HasList
     /\ IsPresent(Payload.current_date))
        => /\ CycleSucceeded
           /\ Len(sleeps) = 2
           /\ sleeps[2] = RETRY_TIME
           /\ current_timestamp = Payload.current_date
           /\ (pc = "loop" => time_sleep_error = Present(30))

====
